---- MODULE Spec2Model ----
(***************************************************************************)
(* A model of two pieces of pomerium:                                      *)
(*   - postgres.addFilterExpressionToQuery, the recursive compiler of a    *)
(*     storage.FilterExpression into a parameterised SQL condition, run    *)
(*     step by step over an explicit call stack, and                       *)
(*   - apiCmd.exec of pomerium-cli, which serves JSON-RPC and gRPC from    *)
(*     two goroutines of one errgroup.                                     *)
(* Go strings are sequences of one-character strings, so that "+=" is \o   *)
(* and two texts are equal exactly when their characters are.  The two     *)
(* package-level names schemaName and recordsTableName are not part of the *)
(* file; each stands in the text as one opaque symbol.                     *)
(***************************************************************************)
EXTENDS Integers, Sequences, FiniteSets, TLC

\* ------------------------------------------------------------------ bounds
\* Every expression tree of at most MaxNodes nodes is compiled (and the larger
\* trees of ExampleTrees).
MaxNodes == 3
\* The args slice handed to a compile already holds 0 or MaxStart values.
MaxStart == 8
\* Trees of concurrently running compiles have at most MaxConcNodes nodes.
MaxConcNodes == 2

\* ----------------------------------------------------------------- strings
schemaName == <<"<schema>">>
recordsTableName == <<"<table>">>

DigitChars == <<"0", "1", "2", "3", "4", "5", "6", "7", "8", "9">>

RECURSIVE Decimal(_)
\* fmt's %d of a non-negative int
Decimal(n) ==
  IF n < 10 THEN <<DigitChars[n + 1]>>
  ELSE Decimal(n \div 10) \o <<DigitChars[(n % 10) + 1]>>

\* fmt.Sprintf("$%d", n)
Sprintf(n) == <<"$">> \o Decimal(n)

RECURSIVE Join(_, _)
\* strings.Join(elems, sep)
Join(elems, sep) ==
  IF Len(elems) = 0 THEN <<>>
  ELSE IF Len(elems) = 1 THEN elems[1]
  ELSE elems[1] \o sep \o Join(Tail(elems), sep)

KeyType == <<"t", "y", "p", "e">>
KeyID == <<"i", "d">>
KeyIndex == <<"$", "i", "n", "d", "e", "x">>
SegNope == <<"n", "o", "p", "e">>

AND == <<"A", "N", "D">>
OR == <<"O", "R">>

\* ------------------------------------------------------------- expressions
\* storage.FilterExpression values.  tag is the dynamic type the type switch
\* inspects; "Unknown" is any implementation other than the three storage ones.
AndFilterExpression(subexprs) ==
  [tag |-> "And", subexprs |-> subexprs, Fields |-> <<>>, Value |-> ""]
OrFilterExpression(subexprs) ==
  [tag |-> "Or", subexprs |-> subexprs, Fields |-> <<>>, Value |-> ""]
EqualsFilterExpression(fields, value) ==
  [tag |-> "Equals", subexprs |-> <<>>, Fields |-> fields, Value |-> value]
UnknownFilterExpression ==
  [tag |-> "Unknown", subexprs |-> <<>>, Fields |-> <<>>, Value |-> ""]

Values == {"x", "y"}

Leaves ==
  {EqualsFilterExpression(<<KeyType>>, v) : v \in Values}
    \cup {EqualsFilterExpression(<<KeyID>>, "y"),
          EqualsFilterExpression(<<KeyIndex>>, "x"),
          EqualsFilterExpression(<<SegNope>>, "y"),
          EqualsFilterExpression(<<KeyType, KeyID>>, "x"),
          UnknownFilterExpression}

ConcLeaves ==
  {EqualsFilterExpression(<<KeyType>>, "x"),
   EqualsFilterExpression(<<SegNope>>, "y"),
   UnknownFilterExpression}

RECURSIVE TreesOfSize(_, _), Forests(_, _)
\* the sequences of trees over `leaves` with n nodes in all
Forests(n, leaves) ==
  IF n = 0 THEN {<<>>}
  ELSE UNION {{<<t>> \o f : t \in TreesOfSize(s, leaves), f \in Forests(n - s, leaves)}
                : s \in 1..n}

\* the trees over `leaves` with exactly n nodes
TreesOfSize(n, leaves) ==
  (IF n = 1 THEN leaves ELSE {})
    \cup {AndFilterExpression(f) : f \in Forests(n - 1, leaves)}
    \cup {OrFilterExpression(f) : f \in Forests(n - 1, leaves)}

\* Example 4 of the specification's testable properties
Example4 ==
  OrFilterExpression(<<AndFilterExpression(<<EqualsFilterExpression(<<KeyID>>, "a")>>),
                       EqualsFilterExpression(<<KeyType>>, "b")>>)

\* a tree that fails two levels down, with siblings left over at both levels
DeepFailure ==
  AndFilterExpression(<<
    EqualsFilterExpression(<<KeyType>>, "x"),
    OrFilterExpression(<<EqualsFilterExpression(<<KeyID>>, "y"),
                         EqualsFilterExpression(<<SegNope>>, "y"),
                         EqualsFilterExpression(<<KeyIndex>>, "x")>>),
    UnknownFilterExpression>>)

\* a tree that compiles, with every supported key, both operators and an empty compound
DeepSuccess ==
  AndFilterExpression(<<
    OrFilterExpression(<<EqualsFilterExpression(<<KeyType>>, "x"),
                         EqualsFilterExpression(<<KeyIndex>>, "y")>>),
    AndFilterExpression(<<>>),
    OrFilterExpression(<<EqualsFilterExpression(<<KeyID>>, "x")>>)>>)

ExampleTrees == {Example4, DeepFailure, DeepSuccess}

Trees == UNION {TreesOfSize(n, Leaves) : n \in 1..MaxNodes} \cup ExampleTrees
ConcTrees == UNION {TreesOfSize(n, ConcLeaves) : n \in 1..MaxConcNodes}

\* ------------------------------------------------------------------ errors
Nil == [kind |-> "nil", detail |-> <<>>]
\* fmt.Errorf("unsupported equals filter: %v", expr.Fields)
ErrUnsupportedEquals(fields) == [kind |-> "unsupported equals filter", detail |-> fields]
\* fmt.Errorf("unsupported filter expression: %T", expr)
ErrUnsupportedExpression(expr) ==
  [kind |-> "unsupported filter expression", detail |-> <<<<expr.tag>>>>]

\* ------------------------------------------------- addFilterExpressionToQuery
Procs == {1, 2}

VARIABLES
  procs,     \* the invocations of addFilterExpressionToQuery of this run
  expr0,     \* expr0[p]: the expression invocation p was called with
  query0,    \* query0[p]: *query when p was called
  args0,     \* args0[p]: *args when p was called
  query,     \* query[p]: *query, the caller's text buffer
  args,      \* args[p]: *args, the caller's parameter slice
  stack,     \* stack[p]: the frames of the recursion, innermost last
  ret,       \* ret[p]: the error the last finished call returned
  visited,   \* visited[p]: the nodes the type switch has seen, in order
  execPc,    \* where apiCmd.exec is
  execErr,   \* the error exec returned
  jsonPc,    \* where the JSON-RPC goroutine is
  jsonErr,   \* the error the JSON-RPC goroutine returned
  grpcPc,    \* where the gRPC goroutine is
  grpcErr,   \* the error the gRPC goroutine returned
  egErr,     \* the errgroup's first error
  ctxDone    \* whether the errgroup's context is cancelled

compileVars == <<procs, expr0, query0, args0, query, args, stack, ret, visited>>
apiVars == <<execPc, execErr, jsonPc, jsonErr, grpcPc, grpcErr, egErr, ctxDone>>
vars == <<compileVars, apiVars>>

\* a call of addFilterExpressionToQuery(query, args, expr) about to run its type
\* switch; i is the range loop's index, and qStart and aStart record len(*query) and
\* len(*args) at the call, so that what the call appended can be told apart
Frame(expr, q, a) ==
  [expr |-> expr, i |-> 0, pc |-> "switch", qStart |-> Len(q), aStart |-> Len(a)]

Top(p) == stack[p][Len(stack[p])]
Running(p) == p \in procs /\ stack[p] # <<>>
Done(p) == p \in procs /\ stack[p] = <<>>

IsCompound(expr) == expr.tag \in {"And", "Or"}
Op(expr) == IF expr.tag = "And" THEN AND ELSE OR

\* (variant) the key is matched on its first four characters only
SupportedKeyByPrefix(key) ==
  key \in {KeyType, KeyID, KeyIndex} \/ (Len(key) > 4 /\ SubSeq(key, 1, 4) = KeyType)
\* the cases of switch strings.Join(expr.Fields, ".") that append a predicate
SupportedKey(key) == key \in {KeyType, KeyID, KeyIndex}

\* (variant) $index compared with plain equality
ColumnAllEquality(key) ==
  IF key = KeyType THEN <<".", "t", "y", "p", "e", " ", "=", " ">>
  ELSE IF key = KeyID THEN <<".", "i", "d", " ", "=", " ">>
  ELSE <<".", "i", "n", "d", "e", "x", "_", "c", "i", "d", "r", " ", "=", " ">>
\* the column and operator each case writes between the table name and the placeholder
Column(key) ==
  IF key = KeyType THEN <<".", "t", "y", "p", "e", " ", "=", " ">>
  ELSE IF key = KeyID THEN <<".", "i", "d", " ", "=", " ">>
  ELSE <<".", "i", "n", "d", "e", "x", "_", "c", "i", "d", "r", " ", ">", ">", "=", " ">>

\* (variant) the placeholder numbered len(*args), without the +1
PlaceholderOfLength(a) == Sprintf(Len(a))
\* fmt.Sprintf("$%d", len(*args)+1)
Placeholder(a) == Sprintf(Len(a) + 1)

\* schemaName + "." + recordsTableName + ".<column> <op> " + placeholder
Predicate(key, a) ==
  schemaName \o <<".">> \o recordsTableName \o Column(key) \o Placeholder(a)

\* (variant) the value put in front of the slice
PrependArg(a, value) == <<value>> \o a
\* *args = append(*args, expr.Value)
AppendArg(a, value) == Append(a, value)

OpenParen == <<"(", " ">>
\* (variant) the closing parenthesis without its space
CloseParenBare == <<")">>
CloseParen == <<" ", ")">>
\* (variant) the operator written before the first child too
SeparatorBeforeEvery(i, op) == <<" ">> \o op \o <<" ">>
\* if i > 0 { *query += " " + op + " " }, i counted from 0
Separator(i, op) == IF i > 0 THEN <<" ">> \o op \o <<" ">> ELSE <<>>
\* (variant) a child's error is dropped and the loop goes on
ChildFailedIgnored(err) == FALSE
\* if err != nil { return err }
ChildFailed(err) == err # Nil

\* (variant) the returned error kept in one place for all invocations
ReturnShared(p, err) ==
  /\ stack' = [stack EXCEPT ![p] = SubSeq(@, 1, Len(@) - 1)]
  /\ ret' = [q \in procs |-> err]
\* the innermost call returns err to its caller
Return(p, err) ==
  /\ stack' = [stack EXCEPT ![p] = SubSeq(@, 1, Len(@) - 1)]
  /\ ret' = [ret EXCEPT ![p] = err]

\* case storage.AndFilterExpression / storage.OrFilterExpression, and the
\* first statement of compoundExpression
SwitchCompound(p) ==
  /\ Running(p)
  /\ Top(p).pc = "switch"
  /\ IsCompound(Top(p).expr)
  /\ query' = [query EXCEPT ![p] = @ \o OpenParen]
  /\ stack' = [stack EXCEPT ![p][Len(stack[p])].pc = "loop"]
  /\ visited' = [visited EXCEPT ![p] = Append(@, Top(p).expr)]
  /\ UNCHANGED <<procs, expr0, query0, args0, args, ret, apiVars>>

\* case storage.EqualsFilterExpression
SwitchEquals(p) ==
  /\ Running(p)
  /\ Top(p).pc = "switch"
  /\ Top(p).expr.tag = "Equals"
  /\ LET expr == Top(p).expr
         key == Join(expr.Fields, <<".">>)
     IN IF SupportedKey(key)
        THEN /\ query' = [query EXCEPT ![p] = @ \o Predicate(key, args[p])]
             /\ args' = [args EXCEPT ![p] = AppendArg(@, expr.Value)]
             /\ Return(p, Nil)
        ELSE /\ Return(p, ErrUnsupportedEquals(expr.Fields))
             /\ UNCHANGED <<query, args>>
  /\ visited' = [visited EXCEPT ![p] = Append(@, Top(p).expr)]
  /\ UNCHANGED <<procs, expr0, query0, args0, apiVars>>

\* default: of the type switch
SwitchDefault(p) ==
  /\ Running(p)
  /\ Top(p).pc = "switch"
  /\ Top(p).expr.tag \notin {"And", "Or", "Equals"}
  /\ Return(p, ErrUnsupportedExpression(Top(p).expr))
  /\ visited' = [visited EXCEPT ![p] = Append(@, Top(p).expr)]
  /\ UNCHANGED <<procs, expr0, query0, args0, query, args, apiVars>>

\* one pass of the range loop up to the recursive call
LoopCall(p) ==
  /\ Running(p)
  /\ Top(p).pc = "loop"
  /\ Top(p).i < Len(Top(p).expr.subexprs)
  /\ LET f == Top(p)
         q == query[p] \o Separator(f.i, Op(f.expr))
     IN /\ query' = [query EXCEPT ![p] = q]
        /\ stack' = [stack EXCEPT ![p] =
              Append([@ EXCEPT ![Len(@)].pc = "called"],
                     Frame(f.expr.subexprs[f.i + 1], q, args[p]))]
  /\ UNCHANGED <<procs, expr0, query0, args0, args, ret, visited, apiVars>>

\* the recursive call has returned: if err != nil { return err }, else the next pass
LoopReturned(p) ==
  /\ Running(p)
  /\ Top(p).pc = "called"
  /\ IF ChildFailed(ret[p])
     THEN Return(p, ret[p])
     ELSE /\ stack' = [stack EXCEPT ![p][Len(stack[p])] =
                 [@ EXCEPT !.pc = "loop", !.i = @ + 1]]
          /\ UNCHANGED ret
  /\ UNCHANGED <<procs, expr0, query0, args0, query, args, visited, apiVars>>

\* the loop is over: *query += " )"; return nil
LoopEnd(p) ==
  /\ Running(p)
  /\ Top(p).pc = "loop"
  /\ Top(p).i = Len(Top(p).expr.subexprs)
  /\ query' = [query EXCEPT ![p] = @ \o CloseParen]
  /\ Return(p, Nil)
  /\ UNCHANGED <<procs, expr0, query0, args0, args, visited, apiVars>>

Step(p) ==
  \/ SwitchCompound(p)
  \/ SwitchEquals(p)
  \/ SwitchDefault(p)
  \/ LoopCall(p)
  \/ LoopReturned(p)
  \/ LoopEnd(p)

Next == \E p \in Procs : Step(p)

\* what the caller holds when it calls: an empty query and no parameters, or a
\* query under construction with MaxStart parameters bound already
StartArgs == {<<>>, [i \in 1..MaxStart |-> "p"]}
StartQuery(a) == IF a = <<>> THEN <<>> ELSE <<"W", "H", "E", "R", "E", " ">>

\* the api command is not run
ApiIdle ==
  /\ execPc = "idle"
  /\ execErr = Nil
  /\ jsonPc = "idle"
  /\ jsonErr = Nil
  /\ grpcPc = "idle"
  /\ grpcErr = Nil
  /\ egErr = Nil
  /\ ctxDone = FALSE

Called(ps, e0, a0) ==
  /\ procs = ps
  /\ expr0 = e0
  /\ args0 = a0
  /\ query0 = [p \in ps |-> StartQuery(a0[p])]
  /\ query = query0
  /\ args = args0
  /\ stack = [p \in ps |-> <<Frame(e0[p], query0[p], a0[p])>>]
  /\ ret = [p \in ps |-> Nil]
  /\ visited = [p \in ps |-> <<>>]

\* one invocation
Init ==
  /\ \E e \in Trees, a \in StartArgs : Called({1}, [p \in {1} |-> e], [p \in {1} |-> a])
  /\ ApiIdle

Spec == Init /\ [][Next]_vars

\* two invocations at once, each on its own expression and its own buffers: the
\* first starts a query, the second continues one
ConcInit ==
  /\ \E e \in [Procs -> ConcTrees] :
        Called(Procs, e, [p \in Procs |-> IF p = 1 THEN <<>> ELSE <<"p">>])
  /\ ApiIdle

ConcSpec == ConcInit /\ [][Next]_vars

RECURSIVE Compile(_, _, _), CompileRange(_, _, _, _, _)
\* addFilterExpressionToQuery run from its call to its return: what it leaves in
\* *query and *args, and the error it returns
Compile(q, a, expr) ==
  IF IsCompound(expr)
  THEN CompileRange(q \o OpenParen, a, expr.subexprs, Op(expr), 0)
  ELSE IF expr.tag = "Equals"
  THEN LET key == Join(expr.Fields, <<".">>)
       IN IF SupportedKey(key)
          THEN [query |-> q \o Predicate(key, a), args |-> AppendArg(a, expr.Value),
                err |-> Nil]
          ELSE [query |-> q, args |-> a, err |-> ErrUnsupportedEquals(expr.Fields)]
  ELSE [query |-> q, args |-> a, err |-> ErrUnsupportedExpression(expr)]

\* compoundExpression's loop from index i on, and what follows it
CompileRange(q, a, subexprs, op, i) ==
  IF i = Len(subexprs)
  THEN [query |-> q \o CloseParen, args |-> a, err |-> Nil]
  ELSE LET r == Compile(q \o Separator(i, op), a, subexprs[i + 1])
       IN IF ChildFailed(r.err) THEN r
          ELSE CompileRange(r.query, r.args, subexprs, op, i + 1)

\* ------------------------------------------------------------- apiCmd.exec
ErrConfigPath == [kind |-> "config file path could not be determined", detail |-> <<>>]
ErrMkdirAll == [kind |-> "os.MkdirAll", detail |-> <<>>]
ErrNewServer == [kind |-> "cli.NewServer", detail |-> <<>>]
ErrJSONListen == [kind |-> "net.Listen json-addr", detail |-> <<>>]
ErrJSONServe == [kind |-> "http.Serve", detail |-> <<>>]
ErrGRPCListen == [kind |-> "net.Listen grpc-addr", detail |-> <<>>]
ErrGRPCServe == [kind |-> "grpcSrv.Serve", detail |-> <<>>]

\* the three registrations multierror.Append collects
Registrations ==
  {"RegisterConfigHandlerServer", "RegisterListenerHandlerServer", "HandlePath"}
\* multierror.Append(...).ErrorOrNil() when the registrations of `failed` fail
ErrorOrNil(failed) ==
  IF failed = {} THEN Nil ELSE [kind |-> "multierror", detail |-> failed]

\* fmt.Errorf("config %s: %w", cmd.configPath, err)
WrapConfig(err) == [kind |-> "config", detail |-> err.kind]

\* a function handed to eg.Go returns err: the group keeps its first non-nil error
\* and cancels its context on it
GroupReturn(err) ==
  /\ egErr' = IF err # Nil /\ egErr = Nil THEN err ELSE egErr
  /\ ctxDone' = (ctxDone \/ err # Nil)

\* if err := cmd.makeConfigPath(); err != nil { return ... }
ExecMakeConfigPath ==
  /\ execPc = "makeConfigPath"
  /\ \E err \in {Nil, ErrConfigPath, ErrMkdirAll} :
       IF err # Nil
       THEN execPc' = "returned" /\ execErr' = WrapConfig(err)
       ELSE execPc' = "NewServer" /\ UNCHANGED execErr
  /\ UNCHANGED <<jsonPc, jsonErr, grpcPc, grpcErr, egErr, ctxDone, compileVars>>

\* srv, err := cli.NewServer(...); if err != nil { return err }
ExecNewServer ==
  /\ execPc = "NewServer"
  /\ \E err \in {Nil, ErrNewServer} :
       IF err # Nil
       THEN execPc' = "returned" /\ execErr' = err
       ELSE execPc' = "GoJSON" /\ UNCHANGED execErr
  /\ UNCHANGED <<jsonPc, jsonErr, grpcPc, grpcErr, egErr, ctxDone, compileVars>>

\* the first eg.Go
ExecGoJSON ==
  /\ execPc = "GoJSON"
  /\ execPc' = "GoGRPC"
  /\ jsonPc' = "Listen"
  /\ UNCHANGED <<execErr, jsonErr, grpcPc, grpcErr, egErr, ctxDone, compileVars>>

\* the second eg.Go
ExecGoGRPC ==
  /\ execPc = "GoGRPC"
  /\ execPc' = "Wait"
  /\ grpcPc' = "Listen"
  /\ UNCHANGED <<execErr, jsonPc, jsonErr, grpcErr, egErr, ctxDone, compileVars>>

\* return eg.Wait(): Wait blocks until every function handed to Go has returned,
\* then cancels the context and returns the first error
ExecWait ==
  /\ execPc = "Wait"
  /\ jsonPc = "returned"
  /\ grpcPc = "returned"
  /\ execPc' = "returned"
  /\ execErr' = egErr
  /\ ctxDone' = TRUE
  /\ UNCHANGED <<jsonPc, jsonErr, grpcPc, grpcErr, egErr, compileVars>>

\* lis, err := net.Listen("tcp", cmd.jsonRPCAddr)
JSONListen ==
  /\ jsonPc = "Listen"
  /\ \E err \in {Nil, ErrJSONListen} :
       IF err # Nil
       THEN jsonPc' = "returned" /\ jsonErr' = err /\ GroupReturn(err)
       ELSE jsonPc' = "Register" /\ UNCHANGED <<jsonErr, egErr, ctxDone>>
  /\ UNCHANGED <<execPc, execErr, grpcPc, grpcErr, compileVars>>

\* the mux and its three registrations
JSONRegister ==
  /\ jsonPc = "Register"
  /\ \E failed \in SUBSET Registrations :
       LET err == ErrorOrNil(failed)
       IN IF err # Nil
          THEN jsonPc' = "returned" /\ jsonErr' = err /\ GroupReturn(err)
          ELSE jsonPc' = "Serve" /\ UNCHANGED <<jsonErr, egErr, ctxDone>>
  /\ UNCHANGED <<execPc, execErr, grpcPc, grpcErr, compileVars>>

\* return http.Serve(lis, mux): Serve returns when accepting fails, with that error;
\* it does not watch ctx
JSONServeReturns ==
  /\ jsonPc = "Serve"
  /\ jsonPc' = "returned"
  /\ jsonErr' = ErrJSONServe
  /\ GroupReturn(ErrJSONServe)
  /\ UNCHANGED <<execPc, execErr, grpcPc, grpcErr, compileVars>>

\* lis, err := net.Listen("tcp", cmd.grpcAddr)
GRPCListen ==
  /\ grpcPc = "Listen"
  /\ \E err \in {Nil, ErrGRPCListen} :
       IF err # Nil
       THEN grpcPc' = "returned" /\ grpcErr' = err /\ GroupReturn(err)
       ELSE grpcPc' = "Register" /\ UNCHANGED <<grpcErr, egErr, ctxDone>>
  /\ UNCHANGED <<execPc, execErr, jsonPc, jsonErr, compileVars>>

\* grpc.NewServer and the registrations on it, none of which returns an error
GRPCRegister ==
  /\ grpcPc = "Register"
  /\ grpcPc' = "Serve"
  /\ UNCHANGED <<execPc, execErr, jsonPc, jsonErr, grpcErr, egErr, ctxDone, compileVars>>

\* return grpcSrv.Serve(lis): Serve returns when accepting fails, with that error;
\* nothing stops the server, and it does not watch ctx
GRPCServeReturns ==
  /\ grpcPc = "Serve"
  /\ grpcPc' = "returned"
  /\ grpcErr' = ErrGRPCServe
  /\ GroupReturn(ErrGRPCServe)
  /\ UNCHANGED <<execPc, execErr, jsonPc, jsonErr, compileVars>>

\* the steps the Go scheduler runs whenever they can run
ExecStep ==
  ExecMakeConfigPath \/ ExecNewServer \/ ExecGoJSON \/ ExecGoGRPC \/ ExecWait
JSONStep == JSONListen \/ JSONRegister
GRPCStep == GRPCListen \/ GRPCRegister

ApiNext == ExecStep \/ JSONStep \/ GRPCStep \/ JSONServeReturns \/ GRPCServeReturns

\* the api command is run; no filter expression is compiled
ApiInit ==
  /\ execPc = "makeConfigPath"
  /\ execErr = Nil
  /\ jsonPc = "idle"
  /\ jsonErr = Nil
  /\ grpcPc = "idle"
  /\ grpcErr = Nil
  /\ egErr = Nil
  /\ ctxDone = FALSE
  /\ Called({}, <<>>, <<>>)

\* every goroutine that can take a step of its own takes it; a served listener
\* may go on accepting for ever
ApiSpec ==
  /\ ApiInit
  /\ [][ApiNext]_vars
  /\ WF_vars(ExecStep)
  /\ WF_vars(JSONStep)
  /\ WF_vars(GRPCStep)

\* ============================================================== properties
\* -------------------------------------------------------------- vocabulary
RECURSIVE PreOrder(_), PreOrderAll(_)
\* the nodes of a tree, depth first, a node before its children, children left to right
PreOrder(e) == <<e>> \o PreOrderAll(e.subexprs)
PreOrderAll(es) ==
  IF es = <<>> THEN <<>> ELSE PreOrder(Head(es)) \o PreOrderAll(Tail(es))

JoinedPath(node) == Join(node.Fields, <<".">>)
UnsupportedField(node) ==
  node.tag = "Equals" /\ JoinedPath(node) \notin {KeyType, KeyID, KeyIndex}
UnsupportedVariant(node) == node.tag \notin {"And", "Or", "Equals"}
Unsupported(node) == UnsupportedField(node) \/ UnsupportedVariant(node)
ValidTree(e) == \A i \in 1..Len(PreOrder(e)) : ~Unsupported(PreOrder(e)[i])

\* the index of the first unsupported node of `nodes`, 0 when there is none
FirstUnsupported(nodes) ==
  IF \E i \in 1..Len(nodes) : Unsupported(nodes[i])
  THEN CHOOSE i \in 1..Len(nodes) :
         Unsupported(nodes[i]) /\ \A j \in 1..(i - 1) : ~Unsupported(nodes[j])
  ELSE 0

\* the error an unsupported node raises by itself
OwnError(node) ==
  IF node.tag = "Equals" THEN ErrUnsupportedEquals(node.Fields)
  ELSE ErrUnsupportedExpression(node)

IsEquals(node) == node.tag = "Equals"
\* the values of a tree's Equals nodes in pre-order
EqualsValues(e) ==
  LET eqs == SelectSeq(PreOrder(e), IsEquals)
  IN [i \in 1..Len(eqs) |-> eqs[i].Value]

IsDigit(c) == \E d \in 1..10 : DigitChars[d] = c
DigitValue(c) == (CHOOSE d \in 1..10 : DigitChars[d] = c) - 1

RECURSIVE ReadNumber(_, _, _)
\* the decimal number written from text[i] on: <<its value, the index after it>>
ReadNumber(text, i, acc) ==
  IF i <= Len(text) /\ IsDigit(text[i])
  THEN ReadNumber(text, i + 1, (acc * 10) + DigitValue(text[i]))
  ELSE <<acc, i>>

RECURSIVE PlaceholdersFrom(_, _)
\* the numbers of the placeholders $N of text from index i on, in text order
PlaceholdersFrom(text, i) ==
  IF i > Len(text) THEN <<>>
  ELSE IF text[i] = "$"
  THEN LET r == ReadNumber(text, i + 1, 0)
       IN <<r[1]>> \o PlaceholdersFrom(text, r[2])
  ELSE PlaceholdersFrom(text, i + 1)

\* what invocation p has appended to the query text
Appended(p) == SubSeq(query[p], Len(query0[p]) + 1, Len(query[p]))

\* "<schema>.<table>.type = $N", "<schema>.<table>.id = $N",
\* "<schema>.<table>.index_cidr >>= $N"
ExpectedPredicate(node, N) ==
  (IF JoinedPath(node) = KeyType
   THEN <<"<schema>", ".", "<table>", ".", "t", "y", "p", "e", " ", "=", " ">>
   ELSE IF JoinedPath(node) = KeyID
   THEN <<"<schema>", ".", "<table>", ".", "i", "d", " ", "=", " ">>
   ELSE <<"<schema>", ".", "<table>", ".", "i", "n", "d", "e", "x", "_", "c", "i", "d", "r",
          " ", ">", ">", "=", " ">>)
    \o <<"$">> \o Decimal(N)

RECURSIVE Fragment(_, _), JoinedFragments(_, _, _)
\* the fragment of a valid tree compiled after k parameters: "( ", the children's
\* fragments with " AND " or " OR " between them, " )"
Fragment(e, k) ==
  IF IsCompound(e)
  THEN <<"(", " ">>
         \o JoinedFragments(e.subexprs,
              IF e.tag = "And" THEN <<" ", "A", "N", "D", " ">> ELSE <<" ", "O", "R", " ">>, k)
         \o <<" ", ")">>
  ELSE ExpectedPredicate(e, k + 1)
JoinedFragments(es, sep, k) ==
  IF es = <<>> THEN <<>>
  ELSE IF Len(es) = 1 THEN Fragment(es[1], k)
  ELSE Fragment(es[1], k) \o sep
         \o JoinedFragments(Tail(es), sep, k + Len(EqualsValues(es[1])))

RECURSIVE NestingFrom(_, _, _)
\* parentheses of text from index i on, opened d deep: never closed below 0, all closed
NestingFrom(text, i, d) ==
  IF i > Len(text) THEN d = 0
  ELSE IF text[i] = "(" THEN NestingFrom(text, i + 1, d + 1)
  ELSE IF text[i] = ")" THEN d > 0 /\ NestingFrom(text, i + 1, d - 1)
  ELSE NestingFrom(text, i + 1, d)

\* invocation p takes a step that returns from its innermost call
Returns(p) == Running(p) /\ Len(stack'[p]) = Len(stack[p]) - 1
\* what the returning call has appended to the query text
ReturnedFragment(p) == SubSeq(query'[p], Top(p).qStart + 1, Len(query'[p]))

\* ---------------------------------------------------------------------- C1
\* C1: when a compile fails, the caller's query text and parameter list are
\* exactly what they were before the call.
FailureLeavesBuffersAsBefore ==
  \A p \in procs :
    (Done(p) /\ ret[p] # Nil) => (query[p] = query0[p] /\ args[p] = args0[p])

\* ---------------------------------------------------------------------- C2
\* C2: a tree of And, Or and Equals on type, id, $index, compiled after k
\* parameters, compiles; the placeholders it appends to the text are numbered
\* k+1, ..., k+n in text order, n being the number of values it appends.
PlaceholdersNumberTheAppendedValues ==
  \A p \in procs :
    (Done(p) /\ ValidTree(expr0[p])) =>
      LET k == Len(args0[p])
          n == Len(args[p]) - k
      IN /\ ret[p] = Nil
         /\ n >= 0
         /\ SubSeq(args[p], 1, k) = args0[p]
         /\ PlaceholdersFrom(Appended(p), 1) = [i \in 1..n |-> k + i]

PlaceholdersCrossTen ==
  \E p \in procs :
    /\ Done(p)
    /\ ValidTree(expr0[p])
    /\ Len(args0[p]) = MaxStart
    /\ Len(args[p]) >= MaxStart + 2

\* ---------------------------------------------------------------------- C3
\* C3: after a successful compile the values appended are the values of the
\* Equals nodes in pre-order, and the i-th placeholder of the appended text
\* is bound to the i-th of them.
ValuesFollowPreOrder ==
  \A p \in procs :
    (Done(p) /\ ret[p] = Nil) =>
      LET vals == EqualsValues(expr0[p])
          ph == PlaceholdersFrom(Appended(p), 1)
      IN /\ args[p] = args0[p] \o vals
         /\ Len(ph) = Len(vals)
         /\ \A i \in 1..Len(ph) :
              ph[i] \in 1..Len(args[p]) /\ args[p][ph[i]] = vals[i]

DeepSuccessCompiled ==
  /\ Done(1)
  /\ expr0[1] = DeepSuccess
  /\ args0[1] # <<>>
  /\ args[1] = args0[1] \o <<"x", "y", "x">>

\* ---------------------------------------------------------------------- C4
\* C4: an And/Or node with at least one child that compiles appends "( ", its
\* children's fragments in order with " AND " / " OR " between them, and " )":
\* the fragment begins with "(", ends with ")", and its parentheses balance.
CompoundFragmentIsParenthesisedJoin ==
  [][\A p \in procs :
       (/\ Returns(p)
        /\ IsCompound(Top(p).expr)
        /\ Len(Top(p).expr.subexprs) >= 1
        /\ ret'[p] = Nil) =>
         LET frag == ReturnedFragment(p)
         IN /\ frag = Fragment(Top(p).expr, Top(p).aStart)
            /\ frag[1] = "("
            /\ frag[Len(frag)] = ")"
            /\ NestingFrom(frag, 1, 0)]_vars

Example4Text ==
  <<"(", " ", "(", " ", "<schema>", ".", "<table>", ".", "i", "d", " ", "=", " ",
    "$", "1", " ", ")", " ", "O", "R", " ", "<schema>", ".", "<table>", ".", "t",
    "y", "p", "e", " ", "=", " ", "$", "2", " ", ")">>

Example4Compiled ==
  /\ Done(1)
  /\ expr0[1] = Example4
  /\ ret[1] = Nil
  /\ query[1] = Example4Text
  /\ args[1] = <<"a", "b">>

\* ---------------------------------------------------------------------- C5
\* C5 as stated: a tree with an Equals node on an unsupported field path
\* fails with the unsupported-field error carrying that node's path,
\* wherever the node is.
UnsupportedFieldAlwaysReported ==
  \A p \in procs :
    Done(p) =>
      \A i \in 1..Len(PreOrder(expr0[p])) :
        UnsupportedField(PreOrder(expr0[p])[i]) =>
          ret[p] = ErrUnsupportedEquals(PreOrder(expr0[p])[i].Fields)

\* C5 amended: a tree with an Equals node on an unsupported field path always
\* fails, wherever the node is; the error is the unsupported-field error
\* carrying that node's path when no unsupported node comes before it in
\* pre-order, and the error of the first unsupported node otherwise.
UnsupportedFieldFailsWithFirstError ==
  \A p \in procs :
    Done(p) =>
      LET nodes == PreOrder(expr0[p])
      IN \A i \in 1..Len(nodes) :
           UnsupportedField(nodes[i]) =>
             /\ ret[p] # Nil
             /\ ret[p] = OwnError(nodes[FirstUnsupported(nodes)])
             /\ (FirstUnsupported(nodes) = i =>
                   ret[p] = ErrUnsupportedEquals(nodes[i].Fields))

NestedUnsupportedFieldReported ==
  /\ Done(1)
  /\ expr0[1] = DeepFailure
  /\ ret[1] = ErrUnsupportedEquals(<<SegNope>>)

\* ---------------------------------------------------------------------- C6
\* C6: an Equals node on type, id or $index appends exactly its predicate,
\* "<schema>.<table>.type = $N", "<schema>.<table>.id = $N" or
\* "<schema>.<table>.index_cidr >>= $N", N = the parameter count plus one,
\* appends exactly its value to the parameters, and returns no error.
EqualsAppendsItsPredicate ==
  [][\A p \in procs :
       (/\ Running(p)
        /\ Top(p).pc = "switch"
        /\ IsEquals(Top(p).expr)
        /\ ~UnsupportedField(Top(p).expr)
        /\ stack'[p] # stack[p]) =>
         /\ query'[p] = query[p] \o ExpectedPredicate(Top(p).expr, Len(args[p]) + 1)
         /\ args'[p] = Append(args[p], Top(p).expr.Value)
         /\ ret'[p] = Nil]_vars

IndexPredicateText ==
  <<"<schema>", ".", "<table>", ".", "i", "n", "d", "e", "x", "_", "c", "i", "d",
    "r", " ", ">", ">", "=", " ", "$", "1">>

IndexContainmentCompiled ==
  /\ Done(1)
  /\ expr0[1] = EqualsFilterExpression(<<KeyIndex>>, "x")
  /\ query[1] = IndexPredicateText
  /\ args[1] = <<"x">>

\* ---------------------------------------------------------------------- C7
\* C7 as stated: an And or Or node without children compiles, appends exactly
\* "( )" and appends no parameter.
EmptyCompoundAppendsOneSpace ==
  [][\A p \in procs :
       (Returns(p) /\ IsCompound(Top(p).expr) /\ Top(p).expr.subexprs = <<>>) =>
         /\ ret'[p] = Nil
         /\ ReturnedFragment(p) = <<"(", " ", ")">>
         /\ Len(args'[p]) = Top(p).aStart]_vars

\* C7 amended: an And or Or node without children compiles, appends exactly
\* "(  )" (the "( " and the " )" of every compound, two spaces between the
\* parentheses) and appends no parameter.
EmptyCompoundAppendsTwoSpaces ==
  [][\A p \in procs :
       (Returns(p) /\ IsCompound(Top(p).expr) /\ Top(p).expr.subexprs = <<>>) =>
         /\ ret'[p] = Nil
         /\ ReturnedFragment(p) = <<"(", " ", " ", ")">>
         /\ Len(args'[p]) = Top(p).aStart
         /\ args'[p] = args[p]]_vars

EmptyCompoundCompiled ==
  \E p \in procs :
    /\ Done(p)
    /\ expr0[p] \in {AndFilterExpression(<<>>), OrFilterExpression(<<>>)}
    /\ ret[p] = Nil
    /\ query[p] = query0[p] \o <<"(", " ", " ", ")">>
    /\ args[p] = args0[p]

\* ---------------------------------------------------------------------- C8
\* C8: however the steps of concurrent invocations interleave, a step of one
\* invocation changes nothing of another, and each invocation ends with the
\* query text, parameters and error it produces when run alone.
InvocationsAreIndependent ==
  [][/\ \E p \in procs :
          \A q \in procs \ {p} :
            /\ query'[q] = query[q]
            /\ args'[q] = args[q]
            /\ stack'[q] = stack[q]
            /\ ret'[q] = ret[q]
            /\ visited'[q] = visited[q]
     /\ \A p \in procs :
          (stack'[p] = <<>>) =>
            LET alone == Compile(query0[p], args0[p], expr0[p])
            IN /\ query'[p] = alone.query
               /\ args'[p] = alone.args
               /\ ret'[p] = alone.err]_vars

OneFailedWhileOtherRuns ==
  /\ procs = {1, 2}
  /\ Done(1)
  /\ ret[1] # Nil
  /\ Running(2)
  /\ visited[2] # <<>>
  /\ query[2] # query0[2]

\* ---------------------------------------------------------------------- C9
\* C9: a compile fails exactly when its tree has an unsupported node; the
\* traversal visits the nodes in pre-order up to the first unsupported one and
\* no further, returns that node's own error, and from the failing step on
\* appends nothing to the query text or the parameters.
FailFast(p) ==
  Done(p) =>
    LET nodes == PreOrder(expr0[p])
        b == FirstUnsupported(nodes)
    IN /\ (ret[p] # Nil) <=> (b # 0)
       /\ (b # 0) => (ret[p] = OwnError(nodes[b]) /\ visited[p] = SubSeq(nodes, 1, b))
       /\ (b = 0) => (visited[p] = nodes)

FailFastOnFirstUnsupportedNode ==
  [][\A p \in procs :
       /\ FailFast(p)'
       /\ (ret'[p] # Nil) => (query'[p] = query[p] /\ args'[p] = args[p])
       /\ (ret[p] # Nil) => (visited'[p] = visited[p])]_vars

DeepFailureStoppedEarly ==
  /\ Done(1)
  /\ expr0[1] = DeepFailure
  /\ ret[1] = ErrUnsupportedEquals(<<SegNope>>)
  /\ Len(visited[1]) = 5
  /\ Len(args[1]) = Len(args0[1]) + 2
  /\ query[1] # query0[1]

\* --------------------------------------------------------------------- C10
\* C10: whenever one transport goroutine has returned an error while the
\* other is serving, exec eventually returns, with that first error.
ExecReturnsOnFirstFailure ==
  ((\/ (jsonPc = "returned" /\ jsonErr # Nil /\ grpcPc = "Serve")
    \/ (grpcPc = "returned" /\ grpcErr # Nil /\ jsonPc = "Serve"))
     /\ execPc = "Wait")
    ~> (execPc = "returned" /\ execErr = egErr)

====
